---- MODULE Spec2Model ----
(***************************************************************************)
(* The stdio <-> SSE bridge of src/remote_client.py (RemoteMCPClient):     *)
(* the Listener (listen_sse), the Forwarder (read_stdin + send_request),   *)
(* the shared session_id cell and the Supervisor (run / __main__).         *)
(*                                                                         *)
(* Text (an input line, an event payload, the local output) is a sequence  *)
(* of lexical tokens; json.loads is the recursive-descent parser below.    *)
(***************************************************************************)
EXTENDS Integers, Sequences, FiniteSets, TLC

(* ------------------------------ bounds -------------------------------- *)
\* number of inputs (stream events plus input lines) delivered in one run
MaxInputs == 3

(* ------------------------------ text ---------------------------------- *)
\* A token of text: k is its lexical class, v its spelling.
Tok(k, v) == [k |-> k, v |-> v]
LBrace == Tok("punct", "{")
RBrace == Tok("punct", "}")
LBrack == Tok("punct", "[")
RBrack == Tok("punct", "]")
Colon == Tok("punct", ":")
Comma == Tok("punct", ",")
NL == Tok("ws", "\n")
SP == Tok("ws", " ")
StrTok(s) == Tok("str", s)
NumTok(d) == Tok("num", d)
NullTok == Tok("lit", "null")
\* a bare word such as not-json: no JSON value starts with it
WordTok(w) == Tok("word", w)
\* a well-formed array nested deeper than the interpreter's recursion limit
\* ("[[[[ ... ]]]]"), taken as one token
DeepTok == Tok("deep", "[[[[...]]]]")

(* --------------------------- Python values ---------------------------- *)
\* What json.loads returns: None, an int, a str, a list or a dict.  Every value
\* has the same four fields so that any two values can be compared.
NoFields == [k \in {} |-> 0]
Scalar(t, v) == [t |-> t, v |-> v, items |-> <<>>, fields |-> NoFields]
PyNone == Scalar("none", "None")
PyInt(d) == Scalar("int", d)
PyStr(s) == Scalar("str", s)
PyList(items) == [t |-> "list", v |-> "", items |-> items, fields |-> NoFields]
PyDict(fields) == [t |-> "dict", v |-> "", items |-> <<>>, fields |-> fields]

\* d[key] = val on a dict's fields (a later assignment replaces an earlier one)
SetItem(fields, key, val) ==
  [k \in (DOMAIN fields) \cup {key} |-> IF k = key THEN val ELSE fields[k]]

\* bool(x) of a Python value: None, 0, "", [] and {} are false
Truthy(x) ==
  CASE x.t = "none" -> FALSE
    [] x.t = "int" -> x.v # "0"
    [] x.t = "str" -> x.v # ""
    [] x.t = "list" -> x.items # <<>>
    [] x.t = "dict" -> DOMAIN x.fields # {}
    [] OTHER -> TRUE

(* ----------------------------- json.loads ----------------------------- *)
\* A parse result: ok, the value, and the tokens left after it; when not ok,
\* exc is the class of the exception json.loads raises.
Good(val, rest) == [ok |-> TRUE, exc |-> "", val |-> val, rest |-> rest]
Bad == [ok |-> FALSE, exc |-> "JSONDecodeError", val |-> PyNone, rest |-> <<>>]
\* the scanner's recursion guard: RecursionError, which is no JSONDecodeError
TooDeep == [ok |-> FALSE, exc |-> "RecursionError", val |-> PyNone, rest |-> <<>>]

RECURSIVE ParseValue(_)
RECURSIVE ParseItems(_, _)
RECURSIVE ParseMembers(_, _)

\* one JSON value at the head of ts
ParseValue(ts) ==
  IF ts = <<>> THEN Bad
  ELSE LET h == Head(ts)
           r == Tail(ts)
       IN CASE h.k = "lit" /\ h.v = "null" -> Good(PyNone, r)
            [] h.k = "num" -> Good(PyInt(h.v), r)
            [] h.k = "str" -> Good(PyStr(h.v), r)
            [] h = LBrack ->
                 IF r # <<>> /\ Head(r) = RBrack
                 THEN Good(PyList(<<>>), Tail(r))
                 ELSE ParseItems(r, <<>>)
            [] h = LBrace ->
                 IF r # <<>> /\ Head(r) = RBrace
                 THEN Good(PyDict(NoFields), Tail(r))
                 ELSE ParseMembers(r, NoFields)
            [] h = DeepTok -> TooDeep
            [] OTHER -> Bad

\* the elements of an array after "[" (or after a ","), up to the closing "]"
ParseItems(ts, acc) ==
  LET e == ParseValue(ts)
  IN IF ~e.ok THEN e
     ELSE IF e.rest = <<>> THEN Bad
     ELSE LET sep == Head(e.rest)
              more == Tail(e.rest)
              items == Append(acc, e.val)
          IN CASE sep = RBrack -> Good(PyList(items), more)
               [] sep = Comma -> ParseItems(more, items)
               [] OTHER -> Bad

\* the members of an object after "{" (or after a ","), up to the closing "}"
ParseMembers(ts, acc) ==
  IF Len(ts) < 2 \/ Head(ts).k # "str" \/ ts[2] # Colon THEN Bad
  ELSE LET key == Head(ts).v
           e == ParseValue(Tail(Tail(ts)))
       IN IF ~e.ok THEN e
          ELSE IF e.rest = <<>> THEN Bad
          ELSE LET sep == Head(e.rest)
                   more == Tail(e.rest)
                   fields == SetItem(acc, key, e.val)
               IN CASE sep = RBrace -> Good(PyDict(fields), more)
                    [] sep = Comma -> ParseMembers(more, fields)
                    [] OTHER -> Bad

\* the text without its white space between tokens (json.loads skips it)
SkipWs(ts) == SelectSeq(ts, LAMBDA t: t.k # "ws")

\* json.loads(text): ok with the value, or not ok: json.JSONDecodeError when the
\* text holds no value or holds anything after the value, RecursionError when
\* it is nested too deep
JsonLoads(text) ==
  LET p == ParseValue(SkipWs(text))
  IN IF ~p.ok \/ p.rest = <<>> THEN p ELSE Bad

RECURSIVE LStrip(_)
\* str.lstrip(): the text without its leading white space
LStrip(ts) == IF ts # <<>> /\ Head(ts).k = "ws" THEN LStrip(Tail(ts)) ELSE ts

RECURSIVE RStrip(_)
\* str.rstrip(): the text without its trailing white space
RStrip(ts) ==
  IF ts # <<>> /\ ts[Len(ts)].k = "ws" THEN RStrip(SubSeq(ts, 1, Len(ts) - 1)) ELSE ts

\* line.strip()
Strip(ts) == RStrip(LStrip(ts))

(* ------------------------- the input alphabets ------------------------ *)
KEY == "sessionId"
\* the model's strings that contain the text sessionId
ContainsKey == {"sessionId", "my-sessionId"}

\* the text {"<key>":<value token>}
ObjText(key, valueTok) == <<LBrace, StrTok(key), Colon, valueTok, RBrace>>

\* An event of the stream: its kind marker (event.event) and payload (event.data).
Event(kind, data) == [event |-> kind, data |-> data]

\* The events the remote stream may deliver.
Events ==
  { Event("session", ObjText(KEY, StrTok("s1"))),
    Event("session", ObjText(KEY, StrTok("s2"))),
    Event("session", ObjText(KEY, StrTok(""))),
    Event("session", ObjText("ping", NumTok("1"))),
    Event("session", <<WordTok("not-json")>>),
    Event("session", <<NumTok("5")>>),
    Event("session", <<>>),
    Event("message", ObjText("ping", NumTok("1"))),
    \* two data: lines of one event, joined by a line break
    Event("message", <<LBrace, StrTok(KEY), Colon, NL, StrTok("s1"), RBrace>>) }

\* The lines sys.stdin.readline may return (each ends with its line break).
Lines ==
  { ObjText("ping", NumTok("1")) \o <<NL>>,
    ObjText(KEY, StrTok("c")) \o <<NL>>,
    <<WordTok("not-json"), NL>>,
    <<LBrack, NumTok("1"), RBrack, NL>>,
    <<DeepTok, NL>>,
    <<NL>> }

\* The exceptions client.post / raise_for_status may raise.
PostErrors == {"ConnectError", "HTTPStatusError"}

(* ------------------------------- state -------------------------------- *)
VARIABLES
  session_id,     \* self.session_id
  client_closed,  \* whether self.client has been closed (aclose)
  stdout,         \* the text written to sys.stdout
  stderr,         \* the error records written to sys.stderr, in order
  posted,         \* the bodies passed to self.client.post, in order
  events,         \* the events the stream has yielded, in order
  stream,         \* the remote stream: "open", "ended" or "failed"
  lines,          \* the lines read from sys.stdin, in order
  stdin,          \* the local input: "open", "eof" or "error"
  listener,       \* the listen_sse task: "idle", "listening", "done", "cancelled"
  forwarder,      \* the read_stdin task: "idle", "reading", "posting", "done", "cancelled"
  supervisor,     \* run(): "Idle", "Running", "Closing", "Terminated"
  interrupted,    \* whether the process has received SIGINT
  exit_code       \* the process's exit status, -1 while it runs

vars == <<session_id, client_closed, stdout, stderr, posted, events, stream, lines,
          stdin, listener, forwarder, supervisor, interrupted, exit_code>>

\* json.dumps({"error": prefix + str(e)}) for an exception of class exc
ErrorRecord(prefix, exc) == [prefix |-> prefix, exc |-> exc]

\* print(event.data, flush=True): the text, then a line break
PrintLine(out, text) == out \o text \o <<NL>>

(* --------------------------- pure helpers ----------------------------- *)
\* `"sessionId" in data`: "yes", "no", or "TypeError" when data is not a container
InData(data) ==
  CASE data.t = "dict" -> IF KEY \in DOMAIN data.fields THEN "yes" ELSE "no"
    [] data.t = "list" ->
         IF \E i \in 1..Len(data.items) : data.items[i] = PyStr(KEY) THEN "yes" ELSE "no"
    [] data.t = "str" -> IF data.v \in ContainsKey THEN "yes" ELSE "no"
    [] OTHER -> "TypeError"

\* the class of the exception line 51-53 raise on a payload: the one json.loads
\* raises, else the TypeError of `in` or of the subscript
RaisedBy(text) ==
  LET p == JsonLoads(text) IN IF p.ok THEN "TypeError" ELSE p.exc

\* the session update without its except clause: a payload that is not JSON raises
SessionUpdateRaisesOnBadJson(text, sid) ==
  LET p == JsonLoads(text)
  IN IF ~p.ok THEN [raised |-> TRUE, sid |-> sid]
     ELSE CASE InData(p.val) = "no" -> [raised |-> FALSE, sid |-> sid]
            [] InData(p.val) = "yes" /\ p.val.t = "dict" ->
                 [raised |-> FALSE, sid |-> p.val.fields[KEY]]
            [] OTHER -> [raised |-> TRUE, sid |-> sid]

\* the session update that keeps the first identifier it was given
SessionUpdateKeepsFirst(text, sid) ==
  LET p == JsonLoads(text)
  IN IF ~p.ok THEN [raised |-> p.exc # "JSONDecodeError", sid |-> sid]
     ELSE CASE InData(p.val) = "no" -> [raised |-> FALSE, sid |-> sid]
            [] InData(p.val) = "yes" /\ p.val.t = "dict" ->
                 [raised |-> FALSE,
                  sid |-> IF sid = PyNone THEN p.val.fields[KEY] ELSE sid]
            [] OTHER -> [raised |-> TRUE, sid |-> sid]

\* Lines 50-55 of listen_sse on the payload of a session event: the new value of
\* self.session_id, and whether an exception other than JSONDecodeError was raised.
SessionUpdate(text, sid) ==
  LET p == JsonLoads(text)
  IN IF ~p.ok THEN [raised |-> p.exc # "JSONDecodeError", sid |-> sid]
     ELSE CASE InData(p.val) = "no" -> [raised |-> FALSE, sid |-> sid]
            [] InData(p.val) = "yes" /\ p.val.t = "dict" ->
                 [raised |-> FALSE, sid |-> p.val.fields[KEY]]
            \* data["sessionId"] on a list or a str, or `in` on an int or None
            [] OTHER -> [raised |-> TRUE, sid |-> sid]

\* send_request that keeps a sessionId the caller supplied
SendRequestKeepsCaller(message, sid) ==
  IF Truthy(sid)
  THEN IF message.t = "dict"
       THEN [raised |-> FALSE,
             body |-> IF KEY \in DOMAIN message.fields
                      THEN message
                      ELSE PyDict(SetItem(message.fields, KEY, sid))]
       ELSE [raised |-> TRUE, body |-> message]
  ELSE [raised |-> FALSE, body |-> message]

\* send_request that assigns sessionId whether or not one is known
SendRequestAlwaysAssigns(message, sid) ==
  IF message.t = "dict"
  THEN [raised |-> FALSE, body |-> PyDict(SetItem(message.fields, KEY, sid))]
  ELSE [raised |-> TRUE, body |-> message]

\* Lines 27-28 of send_request: the body to post, or raised when the item
\* assignment fails (message is not a dict).
SendRequest(message, sid) ==
  IF Truthy(sid)
  THEN IF message.t = "dict"
       THEN [raised |-> FALSE, body |-> PyDict(SetItem(message.fields, KEY, sid))]
       ELSE [raised |-> TRUE, body |-> message]
  ELSE [raised |-> FALSE, body |-> message]

\* the event handler that looks for an identifier in events of every kind
HandleEventAnyKind(e, sid) ==
  IF e.data = <<>>
  THEN [out |-> <<>>, sid |-> sid, errs |-> <<>>, next |-> "listening"]
  ELSE LET r == SessionUpdate(e.data, sid)
       IN IF r.raised
          THEN [out |-> PrintLine(<<>>, e.data), sid |-> r.sid,
                errs |-> <<ErrorRecord("SSE connection error: ", RaisedBy(e.data))>>,
                next |-> "done"]
          ELSE [out |-> PrintLine(<<>>, e.data), sid |-> r.sid, errs |-> <<>>,
                next |-> "listening"]

\* the event handler that updates the identifier first and prints the payload
\* after it: a payload on which the update raises is never printed
HandleEventUpdatesFirst(e, sid) ==
  IF e.data = <<>>
  THEN [out |-> <<>>, sid |-> sid, errs |-> <<>>, next |-> "listening"]
  ELSE LET r == IF e.event = "session"
                THEN SessionUpdate(e.data, sid)
                ELSE [raised |-> FALSE, sid |-> sid]
       IN IF r.raised
          THEN [out |-> <<>>, sid |-> r.sid,
                errs |-> <<ErrorRecord("SSE connection error: ", RaisedBy(e.data))>>,
                next |-> "done"]
          ELSE [out |-> PrintLine(<<>>, e.data), sid |-> r.sid, errs |-> <<>>,
                next |-> "listening"]

\* Lines 44-55 of listen_sse for one event: the text printed, the new
\* session_id, the error records written (line 56-57) and where the task goes.
HandleEvent(e, sid) ==
  IF e.data = <<>>
  THEN [out |-> <<>>, sid |-> sid, errs |-> <<>>, next |-> "listening"]
  ELSE LET r == IF e.event = "session"
                THEN SessionUpdate(e.data, sid)
                ELSE [raised |-> FALSE, sid |-> sid]
       IN IF r.raised
          THEN [out |-> PrintLine(<<>>, e.data), sid |-> r.sid,
                errs |-> <<ErrorRecord("SSE connection error: ", RaisedBy(e.data))>>,
                next |-> "done"]
          ELSE [out |-> PrintLine(<<>>, e.data), sid |-> r.sid, errs |-> <<>>,
                next |-> "listening"]

\* the line handler that leaves the loop on a line that is not JSON
HandleLineStopsOnBadJson(l, sid) ==
  LET p == JsonLoads(Strip(l))
      s == SendRequest(p.val, sid)
  IN CASE p.exc = "JSONDecodeError" ->
            [errs |-> <<ErrorRecord("Invalid JSON: ", "JSONDecodeError")>>,
             posts |-> <<>>, next |-> "done"]
       \* any other exception of json.loads: line 75-77, the loop is left
       [] ~p.ok /\ p.exc # "JSONDecodeError" ->
            [errs |-> <<ErrorRecord("", p.exc)>>, posts |-> <<>>, next |-> "done"]
       [] p.ok /\ s.raised ->
            [errs |-> <<ErrorRecord("", "TypeError")>>, posts |-> <<>>,
             next |-> "reading"]
       [] OTHER -> [errs |-> <<>>, posts |-> <<s.body>>, next |-> "posting"]

\* the line handler that starts the post and goes on reading without awaiting it
HandleLineDoesNotAwait(l, sid) ==
  LET p == JsonLoads(Strip(l))
      s == SendRequest(p.val, sid)
  IN CASE p.exc = "JSONDecodeError" ->
            [errs |-> <<ErrorRecord("Invalid JSON: ", "JSONDecodeError")>>,
             posts |-> <<>>, next |-> "reading"]
       \* any other exception of json.loads: line 75-77, the loop is left
       [] ~p.ok /\ p.exc # "JSONDecodeError" ->
            [errs |-> <<ErrorRecord("", p.exc)>>, posts |-> <<>>, next |-> "done"]
       [] p.ok /\ s.raised ->
            [errs |-> <<ErrorRecord("", "TypeError")>>, posts |-> <<>>,
             next |-> "reading"]
       [] OTHER -> [errs |-> <<>>, posts |-> <<s.body>>, next |-> "reading"]

\* Lines 70-77 of read_stdin with send_request up to the post, for one line: the
\* error records written, the bodies posted and where the task goes.
HandleLine(l, sid) ==
  LET p == JsonLoads(Strip(l))
      s == SendRequest(p.val, sid)
  IN CASE p.exc = "JSONDecodeError" ->
            [errs |-> <<ErrorRecord("Invalid JSON: ", "JSONDecodeError")>>,
             posts |-> <<>>, next |-> "reading"]
       \* any other exception of json.loads: line 75-77, the loop is left
       [] ~p.ok /\ p.exc # "JSONDecodeError" ->
            [errs |-> <<ErrorRecord("", p.exc)>>, posts |-> <<>>, next |-> "done"]
       [] p.ok /\ s.raised ->
            [errs |-> <<ErrorRecord("", "TypeError")>>, posts |-> <<>>,
             next |-> "reading"]
       [] OTHER -> [errs |-> <<>>, posts |-> <<s.body>>, next |-> "posting"]

\* the inputs delivered so far
Inputs == Len(events) + Len(lines)

(* ------------------------------ actions ------------------------------- *)
Init ==
  /\ session_id = PyNone
  /\ client_closed = FALSE
  /\ stdout = <<>>
  /\ stderr = <<>>
  /\ posted = <<>>
  /\ events = <<>>
  /\ stream = "open"
  /\ lines = <<>>
  /\ stdin = "open"
  /\ listener = "idle"
  /\ forwarder = "idle"
  /\ supervisor = "Idle"
  /\ interrupted = FALSE
  /\ exit_code = -1

\* run(): asyncio.gather starts listen_sse and read_stdin
Start ==
  /\ supervisor = "Idle"
  /\ supervisor' = "Running"
  /\ listener' = "listening"
  /\ forwarder' = "reading"
  /\ UNCHANGED <<session_id, client_closed, stdout, stderr, posted, events, stream,
                 lines, stdin, interrupted, exit_code>>

\* listen_sse: one iteration of the loop over aiter_sse, for the event e
SseEvent(e) ==
  /\ listener = "listening"
  /\ stream = "open"
  /\ Inputs < MaxInputs
  /\ events' = Append(events, e)
  /\ LET r == HandleEvent(e, session_id)
     IN /\ stdout' = stdout \o r.out
        /\ session_id' = r.sid
        /\ stderr' = stderr \o r.errs
        /\ listener' = r.next
  /\ UNCHANGED <<client_closed, posted, stream, lines, stdin, forwarder, supervisor,
                 interrupted, exit_code>>

\* listen_sse: the server closes the stream, the loop and the task end
SseEnds ==
  /\ listener = "listening"
  /\ stream = "open"
  /\ stream' = "ended"
  /\ listener' = "done"
  /\ UNCHANGED <<session_id, client_closed, stdout, stderr, posted, events, lines,
                 stdin, forwarder, supervisor, interrupted, exit_code>>

\* listen_sse without its except clause: the failure leaves the task and gather
SseFailsUncaught ==
  /\ listener = "listening"
  /\ stream = "open"
  /\ stream' = "failed"
  /\ listener' = "done"
  /\ forwarder' = IF forwarder \in {"reading", "posting"} THEN "cancelled" ELSE forwarder
  /\ supervisor' = "Closing"
  /\ UNCHANGED <<session_id, client_closed, stdout, stderr, posted, events, lines,
                 stdin, interrupted, exit_code>>

\* listen_sse: connecting or reading raises, line 56-57
SseFails ==
  /\ listener = "listening"
  /\ stream = "open"
  /\ stream' = "failed"
  /\ stderr' = Append(stderr, ErrorRecord("SSE connection error: ", "ConnectError"))
  /\ listener' = "done"
  /\ UNCHANGED <<session_id, client_closed, stdout, posted, events, lines, stdin,
                 forwarder, supervisor, interrupted, exit_code>>

\* read_stdin: one iteration of the loop for the line l, up to the await of the post
StdinLine(l) ==
  /\ forwarder = "reading"
  /\ stdin = "open"
  /\ Inputs < MaxInputs
  /\ lines' = Append(lines, l)
  /\ LET r == HandleLine(l, session_id)
     IN /\ stderr' = stderr \o r.errs
        /\ posted' = posted \o r.posts
        /\ forwarder' = r.next
  /\ UNCHANGED <<session_id, client_closed, stdout, events, stream, stdin, listener,
                 supervisor, interrupted, exit_code>>

\* read_stdin that treats the empty read as an error of the input
StdinEofReported ==
  /\ forwarder = "reading"
  /\ stdin = "open"
  /\ stdin' = "eof"
  /\ stderr' = Append(stderr, ErrorRecord("", "EOFError"))
  /\ forwarder' = "done"
  /\ UNCHANGED <<session_id, client_closed, stdout, posted, events, stream,
                 lines, listener, supervisor, interrupted, exit_code>>

\* read_stdin: readline returns "", line 67-68
StdinEof ==
  /\ forwarder = "reading"
  /\ stdin = "open"
  /\ stdin' = "eof"
  /\ forwarder' = "done"
  /\ UNCHANGED <<session_id, client_closed, stdout, stderr, posted, events, stream,
                 lines, listener, supervisor, interrupted, exit_code>>

\* read_stdin: readline raises (undecodable bytes, a closed file), line 75-77
StdinFails ==
  /\ forwarder = "reading"
  /\ stdin = "open"
  /\ stdin' = "error"
  /\ stderr' = Append(stderr, ErrorRecord("", "UnicodeDecodeError"))
  /\ forwarder' = "done"
  /\ UNCHANGED <<session_id, client_closed, stdout, posted, events, stream, lines,
                 listener, supervisor, interrupted, exit_code>>

\* send_request: the post returns a success status
PostReturns ==
  /\ forwarder = "posting"
  /\ forwarder' = "reading"
  /\ UNCHANGED <<session_id, client_closed, stdout, stderr, posted, events, stream,
                 lines, stdin, listener, supervisor, interrupted, exit_code>>

\* send_request: the post or raise_for_status raises exc, line 36-37
PostFails(exc) ==
  /\ forwarder = "posting"
  /\ stderr' = Append(stderr, ErrorRecord("", exc))
  /\ forwarder' = "reading"
  /\ UNCHANGED <<session_id, client_closed, stdout, posted, events, stream, lines,
                 stdin, listener, supervisor, interrupted, exit_code>>

\* run() that stops waiting as soon as one of the two tasks has returned and
\* leaves the other one running
GatherReturnsOnFirst ==
  /\ supervisor = "Running"
  /\ listener = "done" \/ forwarder = "done"
  /\ supervisor' = "Closing"
  /\ UNCHANGED <<session_id, client_closed, stdout, stderr, posted, events, stream,
                 lines, stdin, listener, forwarder, interrupted, exit_code>>

\* run(): gather returns once both tasks have returned
GatherReturns ==
  /\ supervisor = "Running"
  /\ listener = "done"
  /\ forwarder = "done"
  /\ supervisor' = "Closing"
  /\ UNCHANGED <<session_id, client_closed, stdout, stderr, posted, events, stream,
                 lines, stdin, listener, forwarder, interrupted, exit_code>>

\* the interrupt with the close placed after the gather instead of in a finally
InterruptSkipsClose ==
  /\ supervisor = "Running"
  /\ interrupted' = TRUE
  /\ listener' = IF listener = "listening" THEN "cancelled" ELSE listener
  /\ forwarder' = IF forwarder \in {"reading", "posting"} THEN "cancelled" ELSE forwarder
  /\ supervisor' = "Terminated"
  /\ UNCHANGED <<session_id, client_closed, stdout, stderr, posted, events, stream,
                 lines, stdin, exit_code>>

\* SIGINT while run() awaits gather: the tasks still running are cancelled
Interrupt ==
  /\ supervisor = "Running"
  /\ interrupted' = TRUE
  /\ listener' = IF listener = "listening" THEN "cancelled" ELSE listener
  /\ forwarder' = IF forwarder \in {"reading", "posting"} THEN "cancelled" ELSE forwarder
  /\ supervisor' = "Closing"
  /\ UNCHANGED <<session_id, client_closed, stdout, stderr, posted, events, stream,
                 lines, stdin, exit_code>>

\* run(): finally: await self.client.aclose()
Aclose ==
  /\ supervisor = "Closing"
  /\ client_closed' = TRUE
  /\ supervisor' = "Terminated"
  /\ UNCHANGED <<session_id, stdout, stderr, posted, events, stream, lines, stdin,
                 listener, forwarder, interrupted, exit_code>>

\* __main__ without its except KeyboardInterrupt clause: the interrupt is reported
\* like any other exception
ExitReportsInterrupt ==
  /\ supervisor = "Terminated"
  /\ exit_code = -1
  /\ exit_code' = IF interrupted THEN 1 ELSE 0
  /\ stderr' = IF interrupted
               THEN Append(stderr, ErrorRecord("", "KeyboardInterrupt"))
               ELSE stderr
  /\ UNCHANGED <<session_id, client_closed, stdout, posted, events, stream,
                 lines, stdin, listener, forwarder, supervisor, interrupted>>

\* __main__: asyncio.run returns, or raises KeyboardInterrupt, which is passed over
Exit ==
  /\ supervisor = "Terminated"
  /\ exit_code = -1
  /\ exit_code' = 0
  /\ UNCHANGED <<session_id, client_closed, stdout, stderr, posted, events, stream,
                 lines, stdin, listener, forwarder, supervisor, interrupted>>

Next ==
  \/ Start
  \/ \E e \in Events : SseEvent(e)
  \/ SseEnds
  \/ SseFails
  \/ \E l \in Lines : StdinLine(l)
  \/ StdinEof
  \/ StdinFails
  \/ PostReturns
  \/ \E exc \in PostErrors : PostFails(exc)
  \/ GatherReturns
  \/ Interrupt
  \/ Aclose
  \/ Exit

Spec == Init /\ [][Next]_vars

(* ------------------------- steps named by the claims ------------------ *)
\* the step hands one more event to the Listener; NewEvent is that event
EventStep == Len(events') = Len(events) + 1
NewEvent == events'[Len(events')]
\* the step hands one more line to the Forwarder; NewLine is that line
LineStep == Len(lines') = Len(lines) + 1
NewLine == lines'[Len(lines')]
\* the step dispatches one more request; NewBody is its body
DispatchStep == Len(posted') = Len(posted) + 1
NewBody == posted'[Len(posted')]

\* a non-empty string identifier
IsIdentifier(x) == x.t = "str" /\ x.v # ""
\* the value of the payload's identifier field, when the payload is a JSON object
\* that has the field
HasField(text) ==
  LET p == JsonLoads(text)
  IN p.ok /\ p.val.t = "dict" /\ KEY \in DOMAIN p.val.fields
FieldOf(text) == JsonLoads(text).val.fields[KEY]

S1Text == ObjText(KEY, StrTok("s1"))
CallerLine == ObjText(KEY, StrTok("c")) \o <<NL>>
PingLine == ObjText("ping", NumTok("1")) \o <<NL>>
BadLine == <<WordTok("not-json"), NL>>

(* ------------------------------- claims ------------------------------- *)
\* C1: once the Listener has handled a session announcement whose payload is a
\* JSON object with a non-empty string identifier v, the cell holds v; the cell
\* changes only when a later session event is handled; and every request
\* dispatched while the cell holds v carries sessionId = v, whatever the caller
\* put in that field.
C1_SessionIdInjected ==
  [][ /\ (EventStep /\ NewEvent.event = "session" /\ HasField(NewEvent.data)
            /\ IsIdentifier(FieldOf(NewEvent.data)))
         => session_id' = FieldOf(NewEvent.data)
      /\ (session_id' # session_id) => (EventStep /\ NewEvent.event = "session")
      /\ (DispatchStep /\ IsIdentifier(session_id))
         => (/\ NewBody.t = "dict"
             /\ KEY \in DOMAIN NewBody.fields
             /\ NewBody.fields[KEY] = session_id) ]_vars

\* C1 witness: after the announcement of s1 a line whose caller set sessionId to
\* "c" has been dispatched with sessionId = "s1".
C1_Witness ==
  /\ events = <<Event("session", S1Text)>>
  /\ lines = <<CallerLine>>
  /\ posted = <<PyDict(SetItem(NoFields, KEY, PyStr("s1")))>>

\* C2: a request dispatched while no session identifier has been observed
\* (the cell is still None) has the parsed line as its body, unchanged.
C2_NoInjectionBeforeSession ==
  [][ (DispatchStep /\ session_id = PyNone)
      => (LineStep /\ NewBody = JsonLoads(Strip(NewLine)).val) ]_vars

\* C2 witness: with no event seen, a line without sessionId went out without
\* the field and a line with the caller's sessionId kept the caller's value.
C2_Witness ==
  /\ events = <<>>
  /\ session_id = PyNone
  /\ lines = <<PingLine, CallerLine>>
  /\ Len(posted) = 2
  /\ KEY \notin DOMAIN posted[1].fields
  /\ posted[2].fields[KEY] = PyStr("c")

RECURSIVE LinesOf(_, _, _)
\* the lines of a text: the runs of tokens that its line breaks end
LinesOf(ts, cur, acc) ==
  IF ts = <<>> THEN (IF cur = <<>> THEN acc ELSE Append(acc, cur))
  ELSE IF Head(ts) = NL THEN LinesOf(Tail(ts), <<>>, Append(acc, cur))
  ELSE LinesOf(Tail(ts), Append(cur, Head(ts)), acc)

\* the payloads of the events received so far that have one, in arrival order
PayloadsReceived ==
  LET got == SelectSeq(events, LAMBDA e : e.data # <<>>)
  IN [i \in 1..Len(got) |-> got[i].data]

\* C3: while the Listener runs, the lines on the local output are exactly the
\* non-empty payloads of the events received so far, in arrival order.
C3_OutputLinesArePayloads ==
  listener = "listening" => LinesOf(stdout, <<>>, <<>>) = PayloadsReceived

\* C4: a session event whose payload is not JSON leaves the Session Identifier
\* as it was, writes no error record and leaves the Listener listening on the
\* open stream.
C4_BadAnnouncementIgnored ==
  [][ (EventStep /\ NewEvent.event = "session" /\ ~JsonLoads(NewEvent.data).ok)
      => (/\ session_id' = session_id
          /\ stderr' = stderr
          /\ listener' = "listening"
          /\ stream' = "open") ]_vars

\* C4 witness: s1 was announced, then a session event with the payload not-json
\* came, then a further event was handled: the cell still holds s1, nothing was
\* reported and all three payloads are on the output.
C4_Witness ==
  /\ events = << Event("session", S1Text),
                Event("session", <<WordTok("not-json")>>),
                Event("message", ObjText("ping", NumTok("1"))) >>
  /\ session_id = PyStr("s1")
  /\ stderr = <<>>
  /\ listener = "listening"
  /\ Len(LinesOf(stdout, <<>>, <<>>)) = 3

\* C5: a session event whose payload is JSON but has no identifier field (an
\* object without it, an array, a number, a string, null) changes nothing: the
\* Session Identifier stays, no error record is written, the Listener goes on.
C5_FieldlessAnnouncementIgnored ==
  [][ (EventStep /\ NewEvent.event = "session" /\ JsonLoads(NewEvent.data).ok
         /\ ~HasField(NewEvent.data))
      => (/\ session_id' = session_id
          /\ stderr' = stderr
          /\ listener' = "listening") ]_vars

C7_OneAttemptPerLine ==
  [][ /\ (LineStep /\ JsonLoads(Strip(NewLine)).ok)
         => (DispatchStep /\ forwarder' = "posting")
      /\ (forwarder = "posting" /\ forwarder' = "reading")
         => (posted' = posted /\ Len(stderr') <= Len(stderr) + 1)
      /\ DispatchStep => LineStep ]_vars

\* exactly one of the two tasks has ended (the Listener with its stream, the
\* Forwarder with its input) and the other is still running
OneTaskEnded ==
  \/ listener = "done" /\ stream # "open" /\ forwarder \in {"reading", "posting"}
  \/ forwarder = "done" /\ stdin # "open" /\ listener = "listening"

\* C8: once one task has ended while the other still runs, the next thing that
\* happens is the Supervisor leaving Running (to cancel the other task and
\* release the connection): it does not wait for the other task.
C8_FirstEndedTearsDown ==
  [][ (supervisor = "Running" /\ OneTaskEnded) => supervisor' # "Running" ]_vars

\* C9: a failure of the downstream stream writes exactly one error record and
\* ends the Listener, and touches neither the Forwarder nor the Supervisor; a
\* line read after it that parses and can be sent is dispatched.
C9_ListenerFailureIsLocal ==
  [][ /\ (listener = "listening" /\ stream' = "failed")
         => (/\ Len(stderr') = Len(stderr) + 1
             /\ stderr'[Len(stderr')].prefix = "SSE connection error: "
             /\ listener' = "done"
             /\ forwarder' = forwarder
             /\ stdin' = stdin
             /\ posted' = posted
             /\ supervisor' = supervisor
             /\ exit_code' = exit_code)
      /\ (listener = "done" /\ stream = "failed" /\ LineStep
            /\ JsonLoads(Strip(NewLine)).ok
            /\ ~SendRequest(JsonLoads(Strip(NewLine)).val, session_id).raised)
         => DispatchStep ]_vars

\* C9 witness: the stream failed first (its record is the first on stderr), then
\* the Forwarder reported a malformed line and dispatched the line after it.
C9_Witness ==
  /\ stream = "failed"
  /\ listener = "done"
  /\ supervisor = "Running"
  /\ lines = <<BadLine, PingLine>>
  /\ stderr = << ErrorRecord("SSE connection error: ", "ConnectError"),
                ErrorRecord("Invalid JSON: ", "JSONDecodeError") >>
  /\ Len(posted) = 1

\* C10: whenever the Supervisor is Terminated (and so whenever the process has
\* exited) the shared transport client is closed.
C10_ClosedWhenTerminated ==
  (supervisor = "Terminated" \/ exit_code # -1) => client_closed

\* C10 witness: the bridge was interrupted with both tasks running and a call in
\* flight, and has terminated with the client closed.
C10_Witness ==
  /\ supervisor = "Terminated"
  /\ interrupted
  /\ listener = "cancelled"
  /\ forwarder = "cancelled"
  /\ Len(posted) = 1
  /\ client_closed

\* C11: an interrupt that arrives while nothing has been reported writes no
\* error record, then or later, and the process exits with status 0.
C11_InterruptExitsCleanly ==
  [][ (interrupted' /\ stderr = <<>>)
      => (stderr' = <<>> /\ exit_code' \in {-1, 0}) ]_vars

\* C11 witness: the bridge was interrupted while running with a call in flight
\* and nothing reported, and the process has exited with status 0.
C11_Witness ==
  /\ interrupted
  /\ exit_code = 0
  /\ stderr = <<>>
  /\ listener = "cancelled"
  /\ forwarder = "cancelled"
  /\ Len(posted) = 1

\* C12: when the process has exited without an interrupt after the downstream
\* stream failed, its exit status is 1: status 0 is left to clean shutdowns.
C12_FailureExitsNonZero ==
  (exit_code # -1 /\ ~interrupted /\ stream = "failed") => exit_code = 1

\* body is the value of line l, with or without a sessionId assigned into it
IsBodyOf(body, l) ==
  LET p == JsonLoads(Strip(l))
  IN /\ p.ok
     /\ \/ body = p.val
        \/ /\ p.val.t = "dict"
           /\ body.t = "dict"
           /\ KEY \in DOMAIN body.fields
           /\ body = PyDict(SetItem(p.val.fields, KEY, body.fields[KEY]))

\* C13: the message streams carry no text of the bridge's own: every line on
\* the local output is the payload of a received event and every body posted
\* is the value of a line read (with the sessionId assigned or not).
C13_StreamsCarryOnlyTraffic ==
  /\ \A i \in 1..Len(LinesOf(stdout, <<>>, <<>>)) :
       \E j \in 1..Len(events) : LinesOf(stdout, <<>>, <<>>)[i] = events[j].data
  /\ \A i \in 1..Len(posted) :
       \E j \in 1..Len(lines) : IsBodyOf(posted[i], lines[j])

\* C14: the step in which the input reaches its end ends the Forwarder and
\* writes no error record; once the input has ended nothing more is read or
\* posted.
C14_EofEndsForwarderQuietly ==
  [][ /\ (stdin = "open" /\ stdin' = "eof")
         => (forwarder' = "done" /\ stderr' = stderr /\ posted' = posted)
      /\ (stdin = "eof")
         => (forwarder' = "done" /\ posted' = posted /\ lines' = lines) ]_vars

\* C14 witness: a line was dispatched, its call returned, the input ended: the
\* Forwarder is done and nothing was reported.
C14_Witness ==
  /\ stdin = "eof"
  /\ forwarder = "done"
  /\ lines = <<PingLine>>
  /\ Len(posted) = 1
  /\ stderr = <<>>

MultiLineText == <<LBrace, StrTok(KEY), Colon, NL, StrTok("s1"), RBrace>>

\* C15: the Session Identifier is None before the bridge starts, and a step
\* changes it only if that step is the Listener handling a session event: no
\* other event and no step of the Forwarder or the Supervisor touches it.
C15_OnlySessionEventsWrite ==
  [][ /\ supervisor = "Idle" => session_id = PyNone
      /\ (session_id' # session_id) => (EventStep /\ NewEvent.event = "session") ]_vars

\* C15 witness: a message event whose payload is an object with a sessionId
\* field was handled, a malformed line was reported and a line was dispatched,
\* and the Session Identifier is still None.
C15_Witness ==
  /\ events = <<Event("message", MultiLineText)>>
  /\ lines = <<BadLine, PingLine>>
  /\ Len(posted) = 1
  /\ session_id = PyNone

RECURSIVE LastAnnounced(_)
\* the identifier of the latest session event of evs whose payload is a JSON
\* object with the identifier field; None when there is no such event
LastAnnounced(evs) ==
  IF evs = <<>> THEN PyNone
  ELSE LET e == evs[Len(evs)]
           p == JsonLoads(e.data)
       IN IF e.event = "session" /\ p.ok /\ p.val.t = "dict"
             /\ KEY \in DOMAIN p.val.fields
          THEN p.val.fields[KEY]
          ELSE LastAnnounced(SubSeq(evs, 1, Len(evs) - 1))

S2Text == ObjText(KEY, StrTok("s2"))

\* C16: in every state the Session Identifier is the identifier of the latest
\* announcement that carried one (None when there was none), and a request
\* dispatched while that identifier, the value of session_id, is a non-empty
\* string carries it.
C16_LastWriteWins ==
  /\ [](session_id = LastAnnounced(events))
  /\ [][ (DispatchStep /\ IsIdentifier(session_id))
         => (NewBody.t = "dict" /\ KEY \in DOMAIN NewBody.fields
             /\ NewBody.fields[KEY] = session_id) ]_vars

\* C16 witness: s1 was announced, then s2, and the request dispatched after
\* that carries s2.
C16_Witness ==
  /\ events = <<Event("session", S1Text), Event("session", S2Text)>>
  /\ session_id = PyStr("s2")
  /\ lines = <<CallerLine>>
  /\ posted = <<PyDict(SetItem(NoFields, KEY, PyStr("s2")))>>

\* some announcement with the identifier field has been handled
Announced ==
  \E j \in 1..Len(events) : events[j].event = "session" /\ HasField(events[j].data)

\* C17: once an announcement with the identifier field has been handled,
\* whatever value the field held, every request (a JSON object) dispatched
\* carries a sessionId field equal to the Session Identifier of that moment.
C17_AlwaysInjectedOnceSet ==
  [][ (DispatchStep /\ Announced /\ NewBody.t = "dict")
      => (/\ KEY \in DOMAIN NewBody.fields
          /\ NewBody.fields[KEY] = session_id) ]_vars

RECURSIVE InOrder(_, _)
\* the bodies are the values of some of the lines ls, in the order of ls
InOrder(bodies, ls) ==
  IF bodies = <<>> THEN TRUE
  ELSE IF ls = <<>> THEN FALSE
  ELSE IF IsBodyOf(Head(bodies), Head(ls)) THEN InOrder(Tail(bodies), Tail(ls))
  ELSE InOrder(bodies, Tail(ls))

\* C18: a request is dispatched in the step that reads its line and is put
\* after all earlier ones, so the requests are in the order of their lines;
\* the dispatch leaves the Forwarder awaiting that call, and while it awaits
\* it neither reads a line nor starts another call.
C18_OneCallAtATimeInOrder ==
  [][ /\ InOrder(posted', lines')
      /\ DispatchStep
         => (/\ LineStep
             /\ posted' = Append(posted, NewBody)
             /\ IsBodyOf(NewBody, NewLine)
             /\ forwarder' = "posting")
      /\ LineStep => forwarder = "reading"
      /\ forwarder = "posting" => (lines' = lines /\ posted' = posted) ]_vars

\* C18 witness: two lines were read and dispatched in their order, the first
\* call having ended before the second line was read; the second is in flight.
C18_Witness ==
  /\ lines = <<PingLine, CallerLine>>
  /\ posted = <<JsonLoads(PingLine).val, JsonLoads(CallerLine).val>>
  /\ forwarder = "posting"

\* C19: whatever a line other than the end of input holds, the Forwarder is
\* still running after the step that read it: it is reading the next line or
\* awaiting the call it made for this one.
C19_NoLineEndsForwarder ==
  [][ LineStep => forwarder' \in {"reading", "posting"} ]_vars

\* C20: the client is closed only by a step taken when the Listener and the
\* Forwarder have each returned or been cancelled, and once it is closed no
\* event is read from the stream, no line is taken up and no request is posted.
C20_ClosedOnlyAfterBothTasks ==
  [][ /\ (client_closed' /\ ~client_closed)
         => (/\ listener \in {"done", "cancelled"}
             /\ forwarder \in {"done", "cancelled"})
      /\ client_closed'
         => (/\ listener' \in {"done", "cancelled"}
             /\ forwarder' \in {"done", "cancelled"})
      /\ client_closed
         => (events' = events /\ lines' = lines /\ posted' = posted) ]_vars

\* C20 witness: without an interrupt, the client was closed after a request
\* had been posted and both tasks had returned.
C20_Witness ==
  /\ client_closed
  /\ ~interrupted
  /\ Len(posted) >= 1
  /\ Len(events) >= 1
  /\ listener = "done"
  /\ forwarder = "done"

\* C21: without an interrupt the Supervisor has left Running only when the
\* local input is at its end (or has failed) and the downstream stream has
\* ended or failed: it does not terminate while either is still outstanding.
C21_TerminatesOnlyAfterBothEnd ==
  (supervisor \in {"Closing", "Terminated"} /\ ~interrupted)
    => (stdin # "open" /\ stream # "open")

\* the text, followed by a line break, is in out from the start of a line on
Appears(text, out) ==
  \E i \in 0..(Len(out) - Len(text) - 1) :
    /\ SubSeq(out, i + 1, i + Len(text) + 1) = text \o <<NL>>
    /\ (i = 0 \/ out[i] = NL)

\* C22: the step that handles a session event with a payload writes the
\* payload line to the output whether or not the update of the identifier
\* that follows succeeds; and when a request is dispatched with the injected
\* identifier v, some session event that supplied v has been handled and its
\* payload line is already on the output.
C22_AnnouncementPrintedBeforeUse ==
  [][ /\ (EventStep /\ NewEvent.event = "session" /\ NewEvent.data # <<>>)
         => stdout' = PrintLine(stdout, NewEvent.data)
      /\ (DispatchStep /\ Truthy(session_id))
         => (/\ NewBody.t = "dict"
             /\ KEY \in DOMAIN NewBody.fields
             /\ NewBody.fields[KEY] = session_id
             /\ \E j \in 1..Len(events) :
                  /\ events[j].event = "session"
                  /\ HasField(events[j].data)
                  /\ FieldOf(events[j].data) = session_id
                  /\ Appears(events[j].data, stdout)) ]_vars

\* C22 witness: a request was dispatched with the injected identifier "s2"
\* after the payload that announced it was printed, and a later session event
\* whose payload is the number 5 was printed although its update raised.
C22_Witness ==
  /\ events = <<Event("session", S2Text), Event("session", <<NumTok("5")>>)>>
  /\ lines = <<PingLine>>
  /\ Len(posted) = 1
  /\ posted[1].fields[KEY] = PyStr("s2")
  /\ stdout = S2Text \o <<NL, NumTok("5"), NL>>

====
